---------------------------- MODULE Spec2Model ----------------------------
(***************************************************************************)
(* A model of sheet_happens.py (Sheet Happens, an Excel 2007+ to CSV/JSON  *)
(* converter): the coordinate codec (Sheet.col, Sheet.coords, Sheet.shape),*)
(* value resolution and sanitization (Sheet.value), the eager and lazy     *)
(* extraction modes (Sheet.parsed, Sheet.parse), the lazily cached         *)
(* workbook properties (lazyproperty, Book.shared, Book.sheets) and the    *)
(* command-line entry point (main).                                        *)
(*                                                                         *)
(* Text is a sequence of characters; a character is a one-character string,*)
(* except the line feed and the carriage return, written "LF" and "CR".    *)
(* Python's None is the one-element sequence <<"None">>, which is no text. *)
(***************************************************************************)
EXTENDS Integers, Sequences, FiniteSets, TLC

VARIABLES
    \* Sheet.col called on its own
    colIn, colOut,
    \* Sheet.coords called on its own; cols is the Sheet's column cache
    cell, coordsOut, cols,
    \* one Sheet: its XML tree, its shape, the cached eager table, the
    \* running lazy generator
    tree, width, height, parsedCache, parsedOut, pos, row, emitted, gen,
    \* Sheet.value on one cell node, and the owning Book's fields it reads
    node, shared, sanitize, valueOut,
    \* the sanitization step applied again and again to its own result
    sanRuns,
    \* one Book over one package file
    pkg, book, manifestReads, sharedReads, bookOut, accesses,
    \* one run of the command line; yaml is whether "import yaml" succeeded
    fmts, printed, exitStatus, yaml

vars == <<colIn, colOut, cell, coordsOut, cols,
          tree, width, height, parsedCache, parsedOut, pos, row, emitted, gen,
          node, shared, sanitize, valueOut, sanRuns,
          pkg, book, manifestReads, sharedReads, bookOut, accesses,
          fmts, printed, exitStatus, yaml>>

colVars   == <<colIn, colOut>>
codecVars == <<cell, coordsOut>>
sheetVars == <<tree, width, height, parsedCache, parsedOut, pos, row, emitted, gen>>
valueVars == <<node, shared, sanitize, valueOut>>
bookVars  == <<pkg, book, manifestReads, sharedReads, bookOut, accesses>>
mainVars  == <<fmts, printed, exitStatus, yaml>>

---------------------------------------------------------------------------
(* Python values *)

None == <<"None">>

\* the result of a call that has not been made yet
Unset == [exc |-> "unset", val |-> None]

Returned(v) == [exc |-> "none", val |-> v]

Raised(e) == [exc |-> e, val |-> None]

ascii_uppercase ==
    <<"A", "B", "C", "D", "E", "F", "G", "H", "I", "J", "K", "L", "M",
      "N", "O", "P", "Q", "R", "S", "T", "U", "V", "W", "X", "Y", "Z">>

digits == <<"0", "1", "2", "3", "4", "5", "6", "7", "8", "9">>

Chars(s) == {s[i] : i \in 1..Len(s)}

\* str.find of one character: its 0-based index, -1 when absent
Find(s, ch) ==
    IF ch \in Chars(s)
    THEN (CHOOSE i \in 1..Len(s) : s[i] = ch /\ \A j \in 1..(i-1) : s[j] # ch) - 1
    ELSE -1

\* list indexing: the 1-based position that index i selects in a list of
\* n items (a negative index counts from the end), 0 for IndexError
PyIndex(i, n) ==
    IF 0 <= i /\ i < n THEN i + 1
    ELSE IF i < 0 /\ -n <= i THEN n + i + 1
    ELSE 0

\* the value of a string of ASCII digits
DigitsVal(s) ==
    LET V[i \in 0..Len(s)] ==
            IF i = 0 THEN 0 ELSE 10 * V[i-1] + Find(digits, s[i])
    IN  V[Len(s)]

\* all texts of at most n characters over an alphabet
Texts(alphabet, n) == UNION {[1..k -> alphabet] : k \in 0..n}

\* the characters str.strip removes that the model's texts use
Whitespace == {" ", "TAB", "LF", "CR"}

\* the line terminators of str.splitlines that the model's texts use
\* ("CR" followed by "LF" is one terminator)
LineEnds == {"LF", "CR"}

\* str.strip()
Strip(s) ==
    LET keep == {i \in 1..Len(s) : s[i] \notin Whitespace}
        lo   == CHOOSE i \in keep : \A j \in keep : i <= j
        hi   == CHOOSE i \in keep : \A j \in keep : j <= i
    IN  IF keep = {} THEN <<>> ELSE SubSeq(s, lo, hi)

\* int(text): surrounding whitespace, an optional sign, then decimal
\* digits, where single underscores may stand between two digits ('1_0'
\* is 10; '_1', '1_' and '1__0' are errors).  The digits of the model's
\* texts are the ASCII ones.
PyInt(txt) ==
    LET s      == Strip(txt)
        signed == s # <<>> /\ s[1] \in {"+", "-"}
        body   == IF signed THEN Tail(s) ELSE s
        figs   == SelectSeq(body, LAMBDA ch : ch # "_")
    IN  [ok  |-> /\ body # <<>>
                 /\ Chars(body) \subseteq Chars(digits) \cup {"_"}
                 /\ body[1] # "_" /\ body[Len(body)] # "_"
                 /\ \A i \in 1..(Len(body) - 1) :
                        ~(body[i] = "_" /\ body[i + 1] = "_"),
         val |-> IF signed /\ s[1] = "-" THEN 0 - DigitsVal(figs)
                 ELSE DigitsVal(figs)]

---------------------------------------------------------------------------
(* Coordinate codec *)

\* Sheet.col: x = reversed(find(l) for l in col); sum(26 * i + n)
Col(col) ==
    LET L == Len(col)
        x == [i \in 0..(L-1) |-> Find(ascii_uppercase, col[L - i])]
        S[i \in 0..L] == IF i = 0 THEN 0 ELSE S[i-1] + (26 * (i-1) + x[i-1])
    IN  S[L]

\* self.cols[col] = x
CacheCol(cache, col) ==
    [c \in (DOMAIN cache) \cup {col} |-> IF c = col THEN Col(col) ELSE cache[c]]

\* col = ''.join(x for x in cell if x not in digits)
ColPart(ref) == SelectSeq(ref, LAMBDA ch : ch \notin Chars(digits))

\* ''.join(x for x in cell if x not in col)
RowPart(ref) == SelectSeq(ref, LAMBDA ch : ch \notin Chars(ColPart(ref)))

\* Sheet.coords: the pair (col, row), or the ValueError of int('')
Coords(cache, ref) ==
    IF ~PyInt(RowPart(ref)).ok
    THEN Raised("ValueError")
    ELSE Returned(<<CacheCol(cache, ColPart(ref))[ColPart(ref)],
                    PyInt(RowPart(ref)).val - 1>>)

\* the column cache after Sheet.coords
CoordsCache(cache, ref) ==
    IF ~PyInt(RowPart(ref)).ok THEN cache ELSE CacheCol(cache, ColPart(ref))

NoCols == [c \in {} |-> 0]

---------------------------------------------------------------------------
(* Value resolution and sanitization *)

\* a cell element without a <v> child: node.find(...) returns None
NoNode == <<"NoNode">>

\* a faulty variant of SplitLines: str.splitlines(keepends=True)
RECURSIVE SplitLinesKeepEnds(_)
SplitLinesKeepEnds(s) ==
    LET ends == {i \in 1..Len(s) : s[i] \in LineEnds}
        k    == CHOOSE i \in ends : \A j \in ends : i <= j
        last == IF s[k] = "CR" /\ k < Len(s) /\ s[k+1] = "LF" THEN k + 1 ELSE k
    IN  IF s = <<>> THEN <<>>
        ELSE IF ends = {} THEN <<s>>
        ELSE <<SubSeq(s, 1, last)>>
             \o SplitLinesKeepEnds(SubSeq(s, last + 1, Len(s)))

\* str.splitlines(): the lines without their terminators; no final empty
\* line after a trailing terminator
RECURSIVE SplitLines(_)
SplitLines(s) ==
    LET ends == {i \in 1..Len(s) : s[i] \in LineEnds}
        k    == CHOOSE i \in ends : \A j \in ends : i <= j
        last == IF s[k] = "CR" /\ k < Len(s) /\ s[k+1] = "LF" THEN k + 1 ELSE k
    IN  IF s = <<>> THEN <<>>
        ELSE IF ends = {} THEN <<s>>
        ELSE <<SubSeq(s, 1, k - 1)>> \o SplitLines(SubSeq(s, last + 1, Len(s)))

\* filter(None, parts): the non-empty parts
FilterNone(parts) == SelectSeq(parts, LAMBDA p : p # <<>>)

\* ' '.join(parts)
RECURSIVE JoinSpace(_)
JoinSpace(parts) ==
    IF parts = <<>> THEN <<>>
    ELSE IF Len(parts) = 1 THEN parts[1]
    ELSE parts[1] \o <<" ">> \o JoinSpace(Tail(parts))

\* the truth value of a str-or-None
Truthy(value) == value # None /\ value # <<>>

\* Sheet.value, its last statement: the sanitization step
SanitizeValue(san, value) ==
    IF san /\ Truthy(value)
    THEN JoinSpace(FilterNone(SplitLines(Strip(value))))
    ELSE value

\* Sheet.value, its try statement: the text of <v>, or the shared string
\* it indexes; only AttributeError (no <v>) is caught
Resolve(nd, table) ==
    IF nd.v = NoNode THEN Returned(None)
    ELSE IF nd.t = <<"s">>
    THEN IF nd.v = None THEN Raised("TypeError")
         ELSE IF ~PyInt(nd.v).ok THEN Raised("ValueError")
         ELSE IF PyIndex(PyInt(nd.v).val, Len(table)) = 0 THEN Raised("IndexError")
         ELSE Returned(table[PyIndex(PyInt(nd.v).val, Len(table))])
    ELSE Returned(nd.v)

\* Sheet.value
Value(nd, table, san) ==
    IF Resolve(nd, table).exc # "none" THEN Resolve(nd, table)
    ELSE Returned(SanitizeValue(san, Resolve(nd, table).val))

---------------------------------------------------------------------------
(* One worksheet: shape, eager and lazy extraction *)

\* str.split(sep)
RECURSIVE SplitOn(_, _)
SplitOn(s, sep) ==
    LET hits == {i \in 1..Len(s) : s[i] = sep}
        k    == CHOOSE i \in hits : \A j \in hits : i <= j
    IN  IF hits = {} THEN <<s>>
        ELSE <<SubSeq(s, 1, k - 1)>> \o SplitOn(SubSeq(s, k + 1, Len(s)), sep)

\* Sheet.shape: nw, se = ref.split(':'); (n + 1 for n in coords(se))
Shape(cache, tr) ==
    LET parts == SplitOn(tr.dim, ":")
        se    == Coords(cache, parts[2])
    IN  IF Len(parts) # 2 THEN Raised("ValueError")
        ELSE IF se.exc # "none" THEN se
        ELSE Returned(<<se.val[1] + 1, se.val[2] + 1>>)

\* the column cache after Sheet.shape
ShapeCache(cache, tr) ==
    IF Len(SplitOn(tr.dim, ":")) # 2 THEN cache
    ELSE CoordsCache(cache, SplitOn(tr.dim, ":")[2])

\* Sheet.cell: the coordinates of a cell element's r attribute
Cell(cache, nd) == Coords(cache, nd.r)

\* [None for _ in range(w)]
NullRow(w) == [i \in 1..w |-> None]

\* the column cache after the cells of nodes 1..n were decoded
RECURSIVE CacheAfter(_, _, _)
CacheAfter(cache, nodes, n) ==
    IF n = 0 THEN cache
    ELSE CoordsCache(CacheAfter(cache, nodes, n - 1), nodes[n].r)

\* Sheet.parsed, its loop from node i on: parsed[row][col] = value
RECURSIVE Fill(_, _, _, _, _, _)
Fill(grid, nodes, i, cache, table, san) ==
    IF i > Len(nodes) THEN [out |-> Returned(grid), seen |-> Len(nodes)]
    ELSE LET c  == Cell(cache, nodes[i])
             v  == Value(nodes[i], table, san)
             ri == PyIndex(c.val[2], Len(grid))
             ci == PyIndex(c.val[1], Len(grid[ri]))
         IN  IF c.exc # "none" THEN [out |-> c, seen |-> i]
             ELSE IF v.exc # "none" THEN [out |-> v, seen |-> i]
             ELSE IF ri = 0 \/ ci = 0
                  THEN [out |-> Raised("IndexError"), seen |-> i]
             ELSE Fill([grid EXCEPT ![ri][ci] = v.val], nodes, i + 1,
                       cache, table, san)

\* Sheet.parsed, the method: a height x width grid of None, then the loop
Parsed(tr, w, h, cache, table, san) ==
    Fill([r \in 1..h |-> NullRow(w)], tr.nodes, 1, cache, table, san)

\* an attribute that lazyproperty has not set yet
NoAttr == [has |-> FALSE, val |-> None]

\* a faulty variant of ParseNode: a column already written since the last
\* yield keeps its first value
ParseNodeFirstWrite(buf, out, nd, w, cache, table, san) ==
    LET c  == Cell(cache, nd)
        v  == Value(nd, table, san)
        ci == PyIndex(c.val[1], Len(buf))
        nb == IF buf[ci] = None THEN [buf EXCEPT ![ci] = v.val] ELSE buf
    IN  IF c.exc # "none" \/ v.exc # "none" \/ ci = 0
        THEN [row |-> buf, emitted |-> out, gen |-> "raised"]
        ELSE IF c.val[1] = w - 1
        THEN [row |-> nb, emitted |-> Append(out, nb), gen |-> "yielded"]
        ELSE [row |-> nb, emitted |-> out, gen |-> "running"]

\* Sheet.parse, one turn of its loop up to the yield: row[col] = value; a
\* cell at lastcol yields the buffer, and the generator is suspended there
\* with the yielded list still its buffer
ParseNode(buf, out, nd, w, cache, table, san) ==
    LET c  == Cell(cache, nd)
        v  == Value(nd, table, san)
        ci == PyIndex(c.val[1], Len(buf))
        nb == [buf EXCEPT ![ci] = v.val]
    IN  IF c.exc # "none" \/ v.exc # "none" \/ ci = 0
        THEN [row |-> buf, emitted |-> out, gen |-> "raised"]
        ELSE IF c.val[1] = w - 1
        THEN [row |-> nb, emitted |-> Append(out, nb), gen |-> "yielded"]
        ELSE [row |-> nb, emitted |-> out, gen |-> "running"]

---------------------------------------------------------------------------
(* Excel's own column naming, which the inputs and the claims refer to *)

\* the 0-based number of a column name in Excel's order A, ..., Z, AA, ...
ExcelIndex(letters) ==
    LET E[i \in 0..Len(letters)] ==
            IF i = 0 THEN 0
            ELSE 26 * E[i-1] + Find(ascii_uppercase, letters[i]) + 1
    IN  E[Len(letters)] - 1

\* the Excel name of the 0-based column number n
RECURSIVE ExcelLetters(_)
ExcelLetters(n) ==
    IF n < 26 THEN <<ascii_uppercase[n + 1]>>
    ELSE Append(ExcelLetters((n \div 26) - 1), ascii_uppercase[(n % 26) + 1])

\* the decimal text of a natural number, and of an integer
RECURSIVE NatText(_)
NatText(n) ==
    IF n < 10 THEN <<digits[n + 1]>>
    ELSE Append(NatText(n \div 10), digits[(n % 10) + 1])

IntText(i) == IF i < 0 THEN <<"-">> \o NatText(0 - i) ELSE NatText(i)

---------------------------------------------------------------------------
(* The worksheets explored *)

\* the most cell elements a worksheet holds
MaxCells == 4

ColNames == {<<"A">>, <<"B">>, <<"A", "B">>, <<"A", "Z">>, <<"B", "A">>}

\* the bottom-right corners of the declared dimensions "A1:<corner>"
Corners == {<<"A", "1">>, <<"B", "1">>, <<"A", "2">>, <<"B", "2">>,
            <<"B", "A", "1">>}

\* whether a reference lies inside the range A1:<corner>, in Excel's order
InsideRange(ref, corner) ==
    /\ ExcelIndex(ColPart(ref)) <= ExcelIndex(ColPart(corner))
    /\ 1 <= DigitsVal(RowPart(ref))
    /\ DigitsVal(RowPart(ref)) <= DigitsVal(RowPart(corner))

Addresses(corner) ==
    {ref \in {cn \o NatText(r) : cn \in ColNames,
                                 r \in 1..DigitsVal(RowPart(corner))} :
        InsideRange(ref, corner)}

\* the sequences of at most n distinct elements of S
Distinct(S, n) ==
    {q \in UNION {[1..k -> S] : k \in 0..n} :
        \A i, j \in 1..Len(q) : i # j => q[i] # q[j]}

\* an inline cell whose text is its own address
NodeOf(ref) == [r |-> ref, t |-> None, v |-> ref]

\* the worksheets: a declared dimension, and cells at distinct addresses
\* inside it in any document order
Trees ==
    UNION {{[dim   |-> <<"A", "1", ":">> \o corner,
             nodes |-> [i \in 1..Len(q) |-> NodeOf(q[i])]] :
               q \in Distinct(Addresses(corner), MaxCells)} :
           corner \in Corners}

\* the worksheets with a declared dimension and no cell
BareTrees ==
    {[dim |-> <<"A", "1", ":">> \o corner, nodes |-> <<>>] : corner \in Corners}

---------------------------------------------------------------------------
(* The worksheet's operations *)

IdleCol == colIn = <<>> /\ colOut = Unset

IdleCodec == cell = <<>> /\ coordsOut = Unset

\* no Sheet has been built
IdleSheet ==
    /\ tree = [dim |-> <<>>, nodes |-> <<>>]
    /\ width = 0 /\ height = 0
    /\ cols = NoCols
    /\ parsedCache = NoAttr /\ parsedOut = Unset
    /\ pos = 0 /\ row = <<>> /\ emitted = <<>> /\ gen = "unstarted"

IdleValue == node = NodeOf(<<>>) /\ valueOut = Unset

IdleSanitize == sanRuns = <<>>

IdleBook ==
    /\ pkg = [kind |-> "missing"]
    /\ book = [names |-> <<>>]
    /\ manifestReads = 0 /\ sharedReads = 0
    /\ bookOut = Unset /\ accesses = 0

IdleMain == fmts = {} /\ printed = <<>> /\ exitStatus = -1 /\ yaml = FALSE

\* Sheet.__init__ on the worksheet tr: the tree is kept, the column cache
\* starts empty and self.shape() sets width and height, which leaves the
\* column letters of the dimension's corner in the cache
NewSheet(tr) ==
    /\ tree = tr
    /\ width = Shape(NoCols, tr).val[1]
    /\ height = Shape(NoCols, tr).val[2]
    /\ cols = ShapeCache(NoCols, tr)
    /\ parsedCache = NoAttr /\ parsedOut = Unset
    /\ pos = 0 /\ row = <<>> /\ emitted = <<>> /\ gen = "unstarted"

\* Sheet.__init__ over a worksheet of Trees, owned by a Book with no
\* shared strings and the default sanitize=True
Init ==
    /\ \E tr \in Trees : NewSheet(tr)
    /\ shared = <<>> /\ sanitize = TRUE
    /\ node = NodeOf(<<>>) /\ valueOut = Unset
    /\ IdleCol /\ IdleCodec /\ IdleSanitize /\ IdleBook /\ IdleMain

\* reading Sheet.parsed: lazyproperty returns the cached table, or runs
\* the method and caches what it returns (nothing when it raises)
ParsedAccess ==
    LET run == Parsed(tree, width, height, cols, shared, sanitize)
    IN  /\ parsedOut' = IF parsedCache.has THEN Returned(parsedCache.val)
                        ELSE run.out
        /\ parsedCache' = IF ~parsedCache.has /\ run.out.exc = "none"
                          THEN [has |-> TRUE, val |-> run.out.val]
                          ELSE parsedCache
        /\ cols' = IF parsedCache.has THEN cols
                   ELSE CacheAfter(cols, tree.nodes, run.seen)
        /\ UNCHANGED <<tree, width, height, pos, row, emitted, gen>>
        /\ UNCHANGED <<colVars, codecVars, valueVars, sanRuns, bookVars, mainVars>>

\* the first next() on Sheet.parse(): the buffer and lastcol are set up
ParseStart ==
    /\ gen = "unstarted"
    /\ gen' = "running"
    /\ row' = NullRow(width)
    /\ pos' = 1
    /\ UNCHANGED <<tree, width, height, parsedCache, parsedOut, emitted, cols>>
    /\ UNCHANGED <<colVars, codecVars, valueVars, sanRuns, bookVars, mainVars>>

\* Sheet.parse, one turn of the loop up to the yield, on the next cell
\* element
ParseStep ==
    /\ gen = "running"
    /\ pos <= Len(tree.nodes)
    /\ LET nx == ParseNode(row, emitted, tree.nodes[pos], width, cols,
                           shared, sanitize)
       IN  /\ row' = nx.row
           /\ emitted' = nx.emitted
           /\ gen' = nx.gen
    /\ cols' = CoordsCache(cols, tree.nodes[pos].r)
    /\ pos' = pos + 1
    /\ UNCHANGED <<tree, width, height, parsedCache, parsedOut>>
    /\ UNCHANGED <<colVars, codecVars, valueVars, sanRuns, bookVars, mainVars>>

\* Sheet.parse resumed after a yield: the buffer is replaced by a new
\* list of nulls, and the yielded list is the caller's alone
ParseResume ==
    /\ gen = "yielded"
    /\ gen' = "running"
    /\ row' = NullRow(width)
    /\ UNCHANGED <<tree, width, height, parsedCache, parsedOut, pos, emitted, cols>>
    /\ UNCHANGED <<colVars, codecVars, valueVars, sanRuns, bookVars, mainVars>>

\* Sheet.parse, the end of the loop: the generator is exhausted and the
\* buffer is dropped
ParseStop ==
    /\ gen = "running"
    /\ pos > Len(tree.nodes)
    /\ gen' = "done"
    /\ UNCHANGED <<tree, width, height, parsedCache, parsedOut, pos, row,
                   emitted, cols>>
    /\ UNCHANGED <<colVars, codecVars, valueVars, sanRuns, bookVars, mainVars>>

Next == ParsedAccess \/ ParseStart \/ ParseStep \/ ParseResume \/ ParseStop

Spec == Init /\ [][Next]_vars

---------------------------------------------------------------------------
(* Properties of one worksheet (specification Spec) *)

\* the bottom-right corner of the declared dimension
Corner == SplitOn(tree.dim, ":")[2]

\* the (col, row) that Sheet.coords gives cell element i
Dec(i) == Coords(cols, tree.nodes[i].r).val

\* the value Sheet.value gives cell element i
Val(i) == Value(tree.nodes[i], shared, sanitize).val

NodeIds == 1..Len(tree.nodes)

\* the elements of a finite set of integers in ascending order
Ascending(S) ==
    CHOOSE q \in [1..Cardinality(S) -> S] :
        \A i, j \in 1..Cardinality(S) : i < j => q[i] < q[j]

DistinctAddresses ==
    \A i, j \in NodeIds : i # j => tree.nodes[i].r # tree.nodes[j].r

AllInsideDimension == \A i \in NodeIds : InsideRange(tree.nodes[i].r, Corner)

EveryRowHasLastColumn ==
    \A r \in 0..(height - 1) : \E i \in NodeIds : Dec(i) = <<width - 1, r>>

\* the cells come row by row, and left to right within a row
RowMajor ==
    \A i \in NodeIds : i < Len(tree.nodes) =>
        \/ Dec(i)[2] < Dec(i + 1)[2]
        \/ Dec(i)[2] = Dec(i + 1)[2] /\ Dec(i)[1] < Dec(i + 1)[1]

\* no two cell elements decode to the same (col, row)
DistinctCoordinates ==
    \A i, j \in NodeIds : i # j => Dec(i) # Dec(j)

\* C1: for a worksheet whose cells have distinct addresses inside the
\* declared dimension, in any document order, and whose every row has a
\* cell at column width-1, the rows of the lazy Sheet.parse() equal the
\* grid of the eager Sheet.parsed, row by row and column by column.
\* Stated for the sheets that both modes read to the end and whose
\* addresses Sheet.coords keeps apart.
C1_LazyEqualsEager ==
    (/\ DistinctAddresses /\ AllInsideDimension /\ EveryRowHasLastColumn
     /\ DistinctCoordinates
     /\ gen = "done"
     /\ parsedOut.exc = "none")
    => emitted = parsedOut.val

\* C7: every cell reference inside the declared range A1:<X><Y> decodes to
\* (col, row) with 0 <= col < width and 0 <= row < height, so that filling
\* the eager grid never addresses a position outside it.
C7_CellsInsideShape ==
    parsedOut.exc # "unset" =>
        /\ \A i \in NodeIds : InsideRange(tree.nodes[i].r, Corner) =>
              /\ Coords(cols, tree.nodes[i].r).exc = "none"
              /\ 0 <= Dec(i)[1] /\ Dec(i)[1] < width
              /\ 0 <= Dec(i)[2] /\ Dec(i)[2] < height
        /\ AllInsideDimension => parsedOut.exc # "IndexError"

\* the sheet rows that have a cell at column width-1, in ascending order
FlushRows ==
    Ascending({r \in 0..(height - 1) :
                  \E i \in NodeIds : Dec(i) = <<width - 1, r>>})

\* sheet row r by itself: its own cells' values, null elsewhere
OwnRow(r) ==
    [c \in 1..width |->
        IF \E i \in NodeIds : Dec(i) = <<c - 1, r>>
        THEN Val(CHOOSE i \in NodeIds : Dec(i) = <<c - 1, r>>)
        ELSE None]

\* C10 as stated: over cells in row-major order, a row with no cell at
\* column width-1 is dropped, no emitted vector carries any of its values,
\* and the emitted rows are exactly the rows that have a cell at column
\* width-1, each holding only its own cells' values and nulls elsewhere.
C10_DroppedRowsLeaveNoTrace ==
    (gen = "done" /\ RowMajor) =>
        emitted = [k \in 1..Len(FlushRows) |-> OwnRow(FlushRows[k])]

\* the cell elements whose decoded column is width-1, in document order
FlushCells == Ascending({i \in NodeIds : Dec(i)[1] = width - 1})

\* the vector emitted at the k-th such cell: per column, the last cell
\* written there since the previous emission
FlushedRow(k) ==
    LET from == IF k = 1 THEN 1 ELSE FlushCells[k - 1] + 1
    IN  [c \in 1..width |->
            LET J == {j \in from..FlushCells[k] : PyIndex(Dec(j)[1], width) = c}
            IN  IF J = {} THEN None
                ELSE Val(CHOOSE j \in J : \A m \in J : m <= j)]

\* C10 as amended: one vector is emitted per cell whose decoded column is
\* width-1, in document order; it holds, per column, the value of the last
\* cell written there since the previous emission (the cells of a row with
\* no last-column cell are carried into the next emitted vector) and null
\* elsewhere; the cells after the last emission are never emitted.  This
\* holds in every document order, row-major included.
C10_RowsCarryUnflushedCells ==
    gen = "done" =>
        emitted = [k \in 1..Len(FlushCells) |-> FlushedRow(k)]

\* a row-major sheet was read to its end, and an emitted vector holds the
\* value of a cell whose row has no cell at column width-1
C10_Witness ==
    /\ gen = "done" /\ RowMajor
    /\ \E i \in NodeIds :
          /\ ~ \E j \in NodeIds : Dec(j) = <<width - 1, Dec(i)[2]>>
          /\ \E k \in 1..Len(emitted) : \E c \in 1..width :
                emitted[k][c] = Val(i)

---------------------------------------------------------------------------
(* Sheet.col on the Excel names of the columns (specification SpecCol) *)

\* the last column number explored: ZZZ, the last three-letter column
MaxColumn == 18277

InitCol ==
    /\ colIn \in {[n |-> n, letters |-> ExcelLetters(n)] : n \in 0..MaxColumn}
    /\ colOut = Unset
    /\ \E tr \in BareTrees : NewSheet(tr)
    /\ shared = <<>> /\ sanitize = TRUE
    /\ IdleCodec /\ IdleValue /\ IdleSanitize /\ IdleBook /\ IdleMain

\* sheet.col(letters)
ColCall ==
    /\ colOut.exc = "unset"
    /\ colOut' = Returned(<<Col(colIn.letters)>>)
    /\ cols' = CacheCol(cols, colIn.letters)
    /\ UNCHANGED <<colIn, codecVars, sheetVars, valueVars, sanRuns, bookVars, mainVars>>

NextCol == ColCall

SpecCol == InitCol /\ [][NextCol]_vars

\* C2: Sheet.col applied to the Excel letters of n (A, ..., Z, AA, ..., ZZZ)
\* returns n, for every n from 0 to 18277.
C2_ColInvertsExcelNaming ==
    colOut.exc = "none" => colOut.val = <<colIn.n>>

---------------------------------------------------------------------------
(* Sheet.coords on arbitrary references (specification SpecCodec) *)

\* the longest reference explored
MaxRefLen == 3

RefChars == {"A", "B", "1", "2"}

InitCodec ==
    /\ cell \in Texts(RefChars, MaxRefLen)
    /\ coordsOut = Unset
    /\ \E tr \in BareTrees : NewSheet(tr)
    /\ shared = <<>> /\ sanitize = TRUE
    /\ IdleCol /\ IdleValue /\ IdleSanitize /\ IdleBook /\ IdleMain

\* sheet.coords(cell)
CoordsCall ==
    /\ coordsOut.exc = "unset"
    /\ coordsOut' = Coords(cols, cell)
    /\ cols' = CoordsCache(cols, cell)
    /\ UNCHANGED <<cell, colVars, sheetVars, valueVars, sanRuns, bookVars, mainVars>>

NextCodec == CoordsCall

SpecCodec == InitCodec /\ [][NextCodec]_vars

\* one or more letters followed by one or more digits
WellFormedRef(ref) ==
    \E k \in 1..(Len(ref) - 1) :
        /\ \A i \in 1..k : ref[i] \in Chars(ascii_uppercase)
        /\ \A i \in (k + 1)..Len(ref) : ref[i] \in Chars(digits)

\* C3: Sheet.coords fails with an error, and returns no coordinate pair,
\* for every reference that is not letters followed by digits.
C3_MalformedReferenceFails ==
    (coordsOut.exc # "unset" /\ ~WellFormedRef(cell)) => coordsOut.exc # "none"

---------------------------------------------------------------------------
(* Sheet.value on one cell element (specification SpecValue) *)

\* the longest shared-string table explored
MaxShared == 2

\* the shared-string indexes explored are -MaxIndex..MaxIndex
MaxIndex == 3

SharedEntries == {<<"x">>, <<"y">>}

ValueTexts ==
    {IntText(i) : i \in (0 - MaxIndex)..MaxIndex}
    \cup {<<"0", "_", "1">>, <<"1", "_">>, <<" ", "a", "LF", "b">>}

ValueNodes ==
    [r : {<<"A", "1">>}, t : {None, <<"s">>}, v : {NoNode, None} \cup ValueTexts]

InitValue ==
    /\ node \in ValueNodes
    /\ shared \in Texts(SharedEntries, MaxShared)
    /\ sanitize \in BOOLEAN
    /\ valueOut = Unset
    /\ \E tr \in BareTrees : NewSheet([tr EXCEPT !.nodes = <<node>>])
    /\ IdleCol /\ IdleCodec /\ IdleSanitize /\ IdleBook /\ IdleMain

\* sheet.value(node)
ValueCall ==
    /\ valueOut.exc = "unset"
    /\ valueOut' = Value(node, shared, sanitize)
    /\ UNCHANGED <<node, shared, sanitize, cols>>
    /\ UNCHANGED <<colVars, codecVars, sheetVars, sanRuns, bookVars, mainVars>>

NextValue == ValueCall

SpecValue == InitValue /\ [][NextValue]_vars

\* C6: with sanitization disabled, the value of a cell of type 's' whose
\* text is the integer i is the i-th entry (0-based) of the shared-string
\* table when 0 <= i < its length, and an error, with no entry returned,
\* for every other i, negative i included.
C6_SharedStringIndex ==
    (/\ valueOut.exc # "unset" /\ ~sanitize
     /\ node.t = <<"s">> /\ node.v \notin {NoNode, None} /\ PyInt(node.v).ok)
    => LET i == PyInt(node.v).val
       IN  IF 0 <= i /\ i < Len(shared)
           THEN valueOut.exc = "none" /\ valueOut.val = shared[i + 1]
           ELSE valueOut.exc # "none"

---------------------------------------------------------------------------
(* The sanitization step applied to its own result (specification          *)
(* SpecSanitize)                                                           *)

\* the longest text explored
MaxTextLen == 4

\* how many times the step is applied
MaxRuns == 3

SanChars == {"a", " ", "LF", "CR"}

InitSanitize ==
    /\ sanRuns \in {<<v>> : v \in Texts(SanChars, MaxTextLen)}
    /\ sanitize = TRUE
    /\ shared = <<>>
    /\ \E tr \in BareTrees : NewSheet(tr)
    /\ node = NodeOf(<<>>) /\ valueOut = Unset
    /\ IdleCol /\ IdleCodec /\ IdleBook /\ IdleMain

\* the sanitization step of Sheet.value on the value it returned last
SanitizeAgain ==
    /\ Len(sanRuns) <= MaxRuns
    /\ sanRuns' = Append(sanRuns, SanitizeValue(sanitize, sanRuns[Len(sanRuns)]))
    /\ UNCHANGED <<sanitize, shared, cols>>
    /\ UNCHANGED <<colVars, codecVars, sheetVars, node, valueOut, bookVars, mainVars>>

NextSanitize == SanitizeAgain

SpecSanitize == InitSanitize /\ [][NextSanitize]_vars

\* C9: sanitizing an already sanitized value returns that same value.
C9_SanitizeIdempotent ==
    \A k \in 2..(Len(sanRuns) - 1) : sanRuns[k + 1] = sanRuns[k]

\* a text with a line terminator inside was changed by the first
\* sanitization and left alone by the second
C9_Witness ==
    /\ Len(sanRuns) >= 3
    /\ \E i \in 2..(Len(sanRuns[1]) - 1) : sanRuns[1][i] \in LineEnds
    /\ sanRuns[1][1] = "a"
    /\ sanRuns[2] # sanRuns[1]
    /\ sanRuns[3] = sanRuns[2]

---------------------------------------------------------------------------
(* One Book over one package file *)

\* the most worksheet entries a package holds
MaxSheets == 2

\* the most accesses made to one Book
MaxAccesses == 3

\* a worksheet entry: well-formed with a value in every cell; not
\* parseable by Sheet.__init__; well-formed with a cell that has no value;
\* well-formed with no cell at all
SheetKinds == {"ok", "malformed", "blank", "empty"}

EntryKinds == {"absent", "malformed", "ok"}

\* the files given as path: no file, a file that is no zip archive, or a
\* package with its xl/workbook.xml, xl/sharedStrings.xml and worksheets
Packages ==
    {[kind |-> k, manifest |-> "absent", strings |-> "absent", sheets |-> <<>>] :
        k \in {"missing", "notzip"}}
    \cup [kind : {"zip"}, manifest : EntryKinds, strings : EntryKinds,
          sheets : Texts(SheetKinds, MaxSheets)]

\* the <t> texts of a well-formed xl/sharedStrings.xml
SharedTable(p) == <<<<"x">>>>

\* Book.__init__: no cached property, no zipfile attribute, no names
NewBook ==
    [names |-> <<>>, zipfile |-> "unset", sheetsAttr |-> NoAttr,
     sharedAttr |-> NoAttr]

\* Book.shared, the method, with self.zipfile in state zf: the entry is
\* opened, read and parsed
SharedBody(bk, p, zf) ==
    IF zf = "unset" THEN [out |-> Raised("AttributeError"), sreads |-> 0]
    ELSE IF zf = "closed" THEN [out |-> Raised("ValueError"), sreads |-> 0]
    ELSE IF p.strings = "absent" THEN [out |-> Raised("KeyError"), sreads |-> 0]
    ELSE IF p.strings = "malformed" THEN [out |-> Raised("ParseError"), sreads |-> 1]
    ELSE [out |-> Returned(SharedTable(p)), sreads |-> 1]

\* lazyproperty around Book.shared: the cached value, or the method's
\* result, cached only when the method returns
SharedGet(bk, p, zf) ==
    LET run == SharedBody(bk, p, zf)
    IN  IF bk.sharedAttr.has
        THEN [out |-> Returned(bk.sharedAttr.val), book |-> bk, sreads |-> 0]
        ELSE [out    |-> run.out,
              book   |-> IF run.out.exc = "none"
                         THEN [bk EXCEPT !.sharedAttr =
                                   [has |-> TRUE, val |-> run.out.val]]
                         ELSE bk,
              sreads |-> run.sreads]

\* Book.sheets, the method: the manifest is read and parsed into _names,
\* self.zipfile is set, every worksheet entry is read into a Sheet, and
\* self.shared is touched; the archive is closed on every way out
SheetsBody(bk, p) ==
    LET named  == [bk EXCEPT !.names = [i \in 1..Len(p.sheets) |-> "name"],
                             !.zipfile = "closed"]
        strs   == SharedGet([named EXCEPT !.zipfile = "open"], p, "open")
    IN  IF p.kind = "missing"
        THEN [out |-> Raised("FileNotFoundError"), book |-> bk,
              mreads |-> 0, sreads |-> 0]
        ELSE IF p.kind = "notzip"
        THEN [out |-> Raised("BadZipFile"), book |-> bk,
              mreads |-> 0, sreads |-> 0]
        ELSE IF p.manifest = "absent"
        THEN [out |-> Raised("KeyError"), book |-> bk,
              mreads |-> 0, sreads |-> 0]
        ELSE IF p.manifest = "malformed"
        THEN [out |-> Raised("ParseError"), book |-> bk,
              mreads |-> 1, sreads |-> 0]
        ELSE IF \E i \in 1..Len(p.sheets) : p.sheets[i] = "malformed"
        THEN [out |-> Raised("ParseError"), book |-> named,
              mreads |-> 1, sreads |-> 0]
        ELSE IF strs.out.exc # "none"
        THEN [out |-> strs.out, book |-> named,
              mreads |-> 1, sreads |-> strs.sreads]
        ELSE [out |-> Returned(p.sheets),
              book |-> [strs.book EXCEPT !.zipfile = "closed"],
              mreads |-> 1, sreads |-> strs.sreads]

\* lazyproperty around Book.sheets
SheetsGet(bk, p) ==
    LET run == SheetsBody(bk, p)
    IN  IF bk.sheetsAttr.has
        THEN [out |-> Returned(bk.sheetsAttr.val), book |-> bk,
              mreads |-> 0, sreads |-> 0]
        ELSE [out    |-> run.out,
              book   |-> IF run.out.exc = "none"
                         THEN [run.book EXCEPT !.sheetsAttr =
                                   [has |-> TRUE, val |-> run.out.val]]
                         ELSE run.book,
              mreads |-> run.mreads,
              sreads |-> run.sreads]

InitBook ==
    /\ pkg \in Packages
    /\ book = NewBook
    /\ manifestReads = 0 /\ sharedReads = 0
    /\ bookOut = [call |-> "none", exc |-> "unset", val |-> None]
    /\ accesses = 0
    /\ shared = <<>> /\ sanitize = TRUE
    /\ IdleCol /\ IdleCodec /\ IdleSheet /\ IdleValue /\ IdleSanitize /\ IdleMain

\* next(iter(sheets)) on the outcome of reading book.sheets: the first
\* Sheet, StopIteration when the list is empty
FirstOf(out) ==
    IF out.exc # "none" THEN out
    ELSE IF out.val = <<>> THEN Raised("StopIteration")
    ELSE Returned(out.val[1])

\* what an access that goes through Book.sheets does to the Book; first
\* tells whether the access takes the first item of the list
ThroughSheets(call, first) ==
    LET got == SheetsGet(book, pkg)
        out == IF first THEN FirstOf(got.out) ELSE got.out
    IN  /\ accesses < MaxAccesses
        /\ accesses' = accesses + 1
        /\ book' = got.book
        /\ manifestReads' = manifestReads + got.mreads
        /\ sharedReads' = sharedReads + got.sreads
        /\ bookOut' = [call |-> call, exc |-> out.exc, val |-> out.val]
        /\ UNCHANGED <<pkg, shared, sanitize, cols>>
        /\ UNCHANGED <<colVars, codecVars, sheetVars, node, valueOut, sanRuns, mainVars>>

\* reading book.sheets
SheetsAccess == ThroughSheets("sheets", FALSE)

\* iter(book): Book.__iter__ returns self.sheets.__iter__()
IterBook == ThroughSheets("iter", FALSE)

\* next(book): Book.__next__ returns next(self.__iter__()), the first Sheet
\* on every call
FirstSheet == ThroughSheets("next", TRUE)

\* reading book.shared
SharedAccess ==
    LET got == SharedGet(book, pkg, book.zipfile)
    IN  /\ accesses < MaxAccesses
        /\ accesses' = accesses + 1
        /\ book' = got.book
        /\ sharedReads' = sharedReads + got.sreads
        /\ bookOut' = [call |-> "shared", exc |-> got.out.exc, val |-> got.out.val]
        /\ UNCHANGED <<pkg, manifestReads, shared, sanitize, cols>>
        /\ UNCHANGED <<colVars, codecVars, sheetVars, node, valueOut, sanRuns, mainVars>>

NextBook == SheetsAccess \/ IterBook \/ FirstSheet \/ SharedAccess

SpecBook == InitBook /\ [][NextBook]_vars

\* C4: building the sheet list of a workbook whose package has no
\* xl/sharedStrings.xml entry does not fail, and the shared-string table
\* becomes the empty sequence.
C4_MissingSharedStringsDegrade ==
    (/\ bookOut.call \in {"sheets", "iter", "next"}
     /\ pkg.kind = "zip" /\ pkg.manifest = "ok" /\ pkg.strings = "absent"
     /\ pkg.sheets # <<>>
     /\ \A i \in 1..Len(pkg.sheets) : pkg.sheets[i] # "malformed")
    => /\ bookOut.exc = "none"
       /\ book.sharedAttr.has
       /\ book.sharedAttr.val = <<>>

\* C8: over any sequence of accesses to one Book, those that end in an error
\* included, xl/workbook.xml is read and parsed at most once and
\* xl/sharedStrings.xml is read and parsed at most once.
C8_EntriesReadAtMostOnce == manifestReads <= 1 /\ sharedReads <= 1

---------------------------------------------------------------------------
(* The command line (specification SpecMain) *)

\* the format flags: --csv and --json always, --yaml which main() adds
\* only when "import yaml" succeeded
Formats == {"csv", "json", "yaml"}

\* the flags that p.parse_args() accepts
Accepted(y) == IF y THEN Formats ELSE Formats \ {"yaml"}

ChooseFormatMsg == "ERROR. Choose at least one output format."

NotExcelMsg == "ERROR. '{}' is not an Excel 2007+ file"

OtherErrorMsg == "ERROR. {!r}"

SavingMsg == "Saving '{}' as '{}'"

\* __description__, which names YAML when "import yaml" succeeded
Description(y) ==
    IF y
    THEN "Simple Excel 2007+ to CSV, JSON, and YAML converter without dependencies"
    ELSE "Simple Excel 2007+ to CSV and JSON converter without dependencies"

\* p.print_help(): the non-blank lines it writes to standard output
HelpLines(y) ==
    <<IF y THEN "usage: sheet-happens [-h] [--csv] [--json] [--yaml] filepath"
           ELSE "usage: sheet-happens [-h] [--csv] [--json] filepath",
      Description(y),
      "positional arguments:",
      "  filepath",
      "options:",
      "  -h, --help  show this help message and exit",
      "  --csv",
      "  --json">>
    \o (IF y THEN <<"  --yaml">> ELSE <<>>)

\* main() returning the integer n, main() falling off its end, and main()
\* left by the SystemExit(n) of p.parse_args()
RetInt(n) == [none |-> FALSE, exit |-> FALSE, code |-> n]

RetNone == [none |-> TRUE, exit |-> FALSE, code |-> 0]

ArgExit(n) == [none |-> FALSE, exit |-> TRUE, code |-> n]

\* the order in which main() walks the selected formats: that of the
\* add_argument calls
FormatOrder(f) == SelectSeq(<<"csv", "json", "yaml">>, LAMBDA x : x \in f)

\* whether sheet.to_<fmt>() returns: to_csv raises AttributeError on a
\* None cell (c.encode), and to_json and to_yaml raise StopIteration when
\* parse() yields no header row (next(output) in to_dict)
Writes(sheet, fmt) ==
    /\ ~(fmt = "csv" /\ sheet = "blank")
    /\ ~(fmt \in {"json", "yaml"} /\ sheet = "empty")

\* main(), its loops from sheet i and format k on: each format is
\* announced, then written; the first failing write ends the run with 1
RECURSIVE SaveFrom(_, _, _, _, _)
SaveFrom(sheets, i, fs, k, out) ==
    IF i > Len(sheets) THEN [ret |-> RetInt(0), printed |-> out]
    ELSE IF k > Len(fs) THEN SaveFrom(sheets, i + 1, fs, 1, out)
    ELSE IF ~Writes(sheets[i], fs[k])
    THEN [ret |-> RetInt(1), printed |-> out \o <<SavingMsg, OtherErrorMsg>>]
    ELSE SaveFrom(sheets, i, fs, k + 1, Append(out, SavingMsg))

\* main() on the package p with the flags f, y telling whether yaml was
\* imported: what it returns and the non-blank lines it prints to standard
\* output.  A flag that was not added makes p.parse_args() write its
\* complaint to standard error and raise SystemExit(2).
Main(p, f, y) ==
    LET got == SheetsGet(NewBook, p)
    IN  IF ~(f \subseteq Accepted(y))
        THEN [ret |-> ArgExit(2), printed |-> <<>>]
        ELSE IF f = {}
        THEN [ret |-> RetInt(1), printed |-> <<ChooseFormatMsg>> \o HelpLines(y)]
        ELSE IF got.out.exc = "BadZipFile"
        THEN [ret |-> RetNone, printed |-> <<NotExcelMsg>>]
        ELSE IF got.out.exc # "none"
        THEN [ret |-> RetInt(1), printed |-> <<OtherErrorMsg>>]
        ELSE SaveFrom(got.out.val, 1, FormatOrder(f), 1, <<>>)

\* the status the process ends with: that of sys.exit(main()), where None
\* exits with 0 and an integer with that status, or that of the SystemExit
\* raised inside main()
SysExit(ret) == IF ret.none THEN 0 ELSE ret.code

InitMain ==
    /\ pkg \in Packages
    /\ yaml \in BOOLEAN
    /\ fmts \in SUBSET Formats
    /\ printed = <<>>
    /\ exitStatus = -1
    /\ book = [names |-> <<>>]
    /\ manifestReads = 0 /\ sharedReads = 0
    /\ bookOut = Unset /\ accesses = 0
    /\ shared = <<>> /\ sanitize = TRUE
    /\ IdleCol /\ IdleCodec /\ IdleSheet /\ IdleValue /\ IdleSanitize

\* python sheet_happens.py <path> [--csv] [--json] [--yaml]: sys.exit(main())
RunMain ==
    /\ exitStatus = -1
    /\ printed' = Main(pkg, fmts, yaml).printed
    /\ exitStatus' = SysExit(Main(pkg, fmts, yaml).ret)
    /\ UNCHANGED <<fmts, yaml, bookVars, shared, sanitize, cols>>
    /\ UNCHANGED <<colVars, codecVars, sheetVars, node, valueOut, sanRuns>>

NextMain == RunMain

SpecMain == InitMain /\ [][NextMain]_vars

\* C5: when the input file is not a valid package and at least one output
\* format was selected, main() prints the 'not an Excel 2007+ file' message
\* and the process exits with a non-zero status.  Stated for the command
\* lines whose flags p.parse_args() accepts.
C5_NotAPackageExitsNonZero ==
    (/\ exitStatus # -1 /\ pkg.kind = "notzip"
     /\ fmts # {} /\ fmts \subseteq Accepted(yaml))
    => (printed = <<NotExcelMsg>> /\ exitStatus # 0)

=============================================================================
